---- MODULE Spec2Model ----
(***************************************************************************)
(* Model of the AI casting feature:                                        *)
(*   - VoiceFinder (src/unnamed/part_000): the finder dialog, its          *)
(*     handleAnalyze handler and the continuation that runs when the       *)
(*     model request settles;                                              *)
(*   - AiResultCard (src/components/AiResultCard.tsx): handleCopy with its *)
(*     2000 ms timers, and the formattedInstruction normalization.         *)
(*                                                                         *)
(* Three specifications share the variables: SpecFinder, SpecCopy and      *)
(* SpecNormalize.  Each leaves the other components' variables idle.       *)
(*                                                                         *)
(* Encoding of JavaScript values:                                          *)
(*   - a string of interest (query, systemInstruction text) is a sequence  *)
(*     of one-character strings;                                           *)
(*   - an optional property is a sequence of length 0 (absent, reads as    *)
(*     undefined) or 1 (present);                                          *)
(*   - reading a string property that is absent yields Undefined.          *)
(***************************************************************************)
EXTENDS Integers, Sequences, FiniteSets, TLC

VARIABLES
    \* ---- VoiceFinder component state (part_000:18-21)
    mode,            \* 'persona' | 'script'
    query,           \* textarea contents
    loading,         \* boolean
    error,           \* string | null
    \* ---- VoiceFinder environment
    mounted,         \* the dialog is on screen (the parent's onClose removes it)
    pending,         \* handleAnalyze invocations suspended at the await (line 101)
    response,        \* what the last settled request produced
    delivered,       \* last argument passed to onRecommendation (<<>>: none yet)
    recommendation,  \* the recommendation held by the parent (<<>>: null)
    event,           \* the handler the last step ran, and whether it called onRecommendation
    \* ---- AiResultCard copy state (AiResultCard.tsx:20, 32-36)
    copiedSection,   \* string | null
    clipboard,       \* last text written to the clipboard
    timers,          \* due times of the pending setTimeout callbacks, in creation order
    now,             \* clock, ms
    copies,          \* the copies made so far: <<[section, at]>>, oldest first
    \* ---- AiResultCard direction notes (AiResultCard.tsx:38-43)
    original,        \* the text first handed to the card
    systemInstruction,    \* result.systemInstruction
    formattedInstruction, \* the memoized normalization
    passes           \* how many times the normalization has been applied

finderVars == <<mode, query, loading, error, mounted, pending, response,
                delivered, recommendation, event>>
copyVars == <<copiedSection, clipboard, timers, now, copies>>
normVars == <<original, systemInstruction, formattedInstruction, passes>>
vars == <<finderVars, copyVars, normVars>>

----------------------------------------------------------------------------
(* Bounds *)

MaxParts == 2         \* longest scriptParts array in a response
MaxCopies == 3        \* handleCopy invocations
MaxClock == 6000      \* the clock stops here
MaxTextLen == 6       \* longest systemInstruction text
MaxPasses == 2        \* normalization applied to its own output once

----------------------------------------------------------------------------
(* JavaScript helpers *)

Null == "null"
Undefined == "<undefined>"

\* \s, restricted to the characters of the model's alphabets
Whitespace == {" ", "\n"}

RECURSIVE TrimStart(_)
TrimStart(s) ==
    IF s = <<>> THEN <<>>
    ELSE IF Head(s) \in Whitespace THEN TrimStart(Tail(s)) ELSE s

RECURSIVE TrimEnd(_)
TrimEnd(s) ==
    IF s = <<>> THEN <<>>
    ELSE IF s[Len(s)] \in Whitespace THEN TrimEnd(SubSeq(s, 1, Len(s) - 1)) ELSE s

\* Trim with a fault: no trimming at all (`!query` instead of `!query.trim()`)
TrimNothing(s) == s

\* String.prototype.trim
Trim(s) == TrimEnd(TrimStart(s))

\* `x || d` for an optional property: absent reads as undefined, which is falsy
OrElse(opt, d) == IF opt = <<>> THEN d ELSE opt[1]

\* Dedupe with a fault: Array.from(list) without the Set
DedupeNothing(s) == s

RECURSIVE Dedupe(_)
\* Array.from(new Set(list)): first occurrences, in insertion order
Dedupe(s) ==
    IF s = <<>> THEN <<>>
    ELSE LET init == Dedupe(SubSeq(s, 1, Len(s) - 1))
             last == s[Len(s)]
         IN  IF \E i \in 1..Len(init) : init[i] = last THEN init ELSE Append(init, last)

Range(s) == {s[i] : i \in 1..Len(s)}

----------------------------------------------------------------------------
(* VoiceFinder: the model's response *)

Modes == {"persona", "script"}

\* the texts typed into the textarea: empty, whitespace only, and texts with
\* something left after trimming
Queries ==
    {<<>>, <<" ">>, <<"\n", " ">>, <<"a">>, <<" ", "a", "\n">>}

\* the message of line 129
ErrorMessage == "Failed to analyze. Check your script or try again."

VoiceNames == {"Kore", "Puck"}

\* a script part as parsed from the response; voiceName may be missing
Parts ==
    [speaker : {<<"Alex">>}, text : {<<"We found it.">>},
     voiceName : {<<>>} \cup {<<v>> : v \in VoiceNames}]

PartSeqs == UNION {[1..n -> Parts] : n \in 0..MaxParts}

NoFields ==
    [isNull |-> FALSE, recommendedVoices |-> <<>>, systemInstruction |-> <<>>,
     sampleText |-> <<>>, scriptParts |-> <<>>]

\* the JSON value `null`
JsonNull == [NoFields EXCEPT !.isNull = TRUE]

\* JSON objects shaped after the persona schema (lines 79-81), fields optional
PersonaObjects ==
    [isNull : {FALSE},
     recommendedVoices : {<<>>, << <<"Kore", "Puck">> >>},
     systemInstruction : {<<>>, <<"## Notes">>},
     sampleText : {<<>>, <<"Hello.">>},
     scriptParts : {<<>>}]

\* JSON objects shaped after the script schema (lines 83-96): scriptParts is
\* optional and its parts may lack voiceName. The string fields are present
\* here; PersonaObjects, which either mode may receive, cover their absence.
ScriptObjects ==
    [isNull : {FALSE},
     recommendedVoices : {<<>>},
     systemInstruction : {<<"## Notes">>},
     sampleText : {<<"Hello.">>},
     scriptParts : {<<>>} \cup {<<ps>> : ps \in PartSeqs}]

JsonValues == {JsonNull} \cup PersonaObjects \cup ScriptObjects

\* How the awaited generateContent call (line 101) can settle:
\*   rejected - the promise rejects (network, API error)
\*   empty    - response.text is undefined or ""
\*   garbage  - response.text is not valid JSON
\*   json     - response.text is the serialization of `value`
Responses ==
    [status : {"rejected", "empty", "garbage"}, value : {NoFields}]
        \cup [status : {"json"}, value : JsonValues]

NoResponse == [status |-> "none", value |-> NoFields]

\* TextOrDefault with a fault: any unusable text falls back to '{}'
TextOrDefaultLenient(r) ==
    IF r.status \in {"empty", "garbage"} THEN [status |-> "json", value |-> NoFields] ELSE r

\* response.text || '{}'
TextOrDefault(r) == IF r.status = "empty" THEN [status |-> "json", value |-> NoFields] ELSE r

\* JSON.parse: throws SyntaxError on text that is not JSON
JSONParse(t) == [threw |-> t.status # "json", value |-> t.value]

\* p.voiceName (line 120)
VoiceNameOf(p) == OrElse(p.voiceName, Undefined)

\* PersonaRecord with a fault: scriptParts copied as in the script branch
PersonaRecordWithParts(result) ==
    [voiceNames |-> OrElse(result.recommendedVoices, <<>>),
     systemInstruction |-> OrElse(result.systemInstruction, ""),
     sampleText |-> OrElse(result.sampleText, ""),
     isMultiSpeaker |-> FALSE,
     scriptParts |-> <<OrElse(result.scriptParts, <<>>)>>]

\* the record of lines 112-117; scriptParts is not a property of it
PersonaRecord(result) ==
    [voiceNames |-> OrElse(result.recommendedVoices, <<>>),
     systemInstruction |-> OrElse(result.systemInstruction, ""),
     sampleText |-> OrElse(result.sampleText, ""),
     isMultiSpeaker |-> FALSE,
     scriptParts |-> <<>>]

\* the record of lines 119-125
ScriptRecord(result) ==
    LET parts == OrElse(result.scriptParts, <<>>)
    IN  [voiceNames |-> Dedupe([i \in 1..Len(parts) |-> VoiceNameOf(parts[i])]),
         systemInstruction |-> OrElse(result.systemInstruction, ""),
         sampleText |-> OrElse(result.sampleText, ""),
         isMultiSpeaker |-> TRUE,
         scriptParts |-> <<parts>>]

\* Lines 110-126 for a request started in mode m that settled with r:
\* threw = control reaches the catch block; rec = the argument of onRecommendation.
Continuation(m, r) ==
    IF r.status = "rejected" THEN [threw |-> TRUE, rec |-> <<>>]
    ELSE LET parsed == JSONParse(TextOrDefault(r))
         IN  IF parsed.threw THEN [threw |-> TRUE, rec |-> <<>>]
             \* reading a property of null throws TypeError
             ELSE IF parsed.value.isNull THEN [threw |-> TRUE, rec |-> <<>>]
             ELSE IF m = "persona"
                  THEN [threw |-> FALSE, rec |-> <<PersonaRecord(parsed.value)>>]
                  ELSE [threw |-> FALSE, rec |-> <<ScriptRecord(parsed.value)>>]

\* a recommendation the parent may already hold when the dialog opens
PriorRecommendation ==
    [voiceNames |-> <<"Kore">>, systemInstruction |-> "## Earlier", sampleText |-> "Earlier.",
     isMultiSpeaker |-> FALSE, scriptParts |-> <<>>]

----------------------------------------------------------------------------
(* VoiceFinder: handlers *)

Event(op, called) == [op |-> op, calledBack |-> called]

\* AnalyzeDisabled with a fault: the button ignores `loading`
AnalyzeDisabledBlankOnly == Trim(query) = <<>>

\* disabled={loading || !query.trim()} (line 162)
AnalyzeDisabled == loading \/ Trim(query) = <<>>

\* the parent's result handler: it stores what it is given
ParentOnRecommendation(rec) == rec

\* the parent's onClose: the dialog is removed
ParentOnClose == FALSE

\* handleAnalyze up to the await (lines 42-108). The suspended invocation keeps
\* the `mode` of the render it was created in (the prompt it sent is not modelled).
HandleAnalyze ==
    /\ event' = Event("handleAnalyze", FALSE)
    /\ IF Trim(query) = <<>>
       THEN UNCHANGED <<loading, error, pending>>
       ELSE /\ loading' = TRUE
            /\ error' = Null
            /\ pending' = Append(pending, [mode |-> mode])
    /\ UNCHANGED <<mode, query, mounted, response, delivered, recommendation>>

\* the Analyze button is clicked (it is enabled)
ClickAnalyze ==
    /\ mounted
    /\ ~AnalyzeDisabled
    /\ HandleAnalyze
    /\ UNCHANGED <<copyVars, normVars>>

\* handleAnalyze is entered while the query is blank; line 43 is the handler's
\* own guard for this case
AnalyzeBlank ==
    /\ mounted
    /\ \A i \in 1..Len(query) : query[i] \in Whitespace
    /\ HandleAnalyze
    /\ UNCHANGED <<copyVars, normVars>>

\* the mode buttons (lines 145-146)
SetMode(m) ==
    /\ mounted
    /\ mode' = m
    /\ event' = Event("setMode", FALSE)
    /\ UNCHANGED <<query, loading, error, mounted, pending, response, delivered,
                   recommendation>>
    /\ UNCHANGED <<copyVars, normVars>>

\* the textarea's onChange (line 151)
SetQuery(q) ==
    /\ mounted
    /\ query' = q
    /\ event' = Event("setQuery", FALSE)
    /\ UNCHANGED <<mode, loading, error, mounted, pending, response, delivered,
                   recommendation>>
    /\ UNCHANGED <<copyVars, normVars>>

\* close button, backdrop click or Escape (lines 28, 137, 142): onClose()
Dismiss ==
    /\ mounted
    /\ mounted' = ParentOnClose
    /\ event' = Event("onClose", FALSE)
    /\ UNCHANGED <<mode, query, loading, error, pending, response, delivered,
                   recommendation>>
    /\ UNCHANGED <<copyVars, normVars>>

\* The awaited request of the i-th suspended invocation settles with r and
\* handleAnalyze runs to its end (lines 110-132). State setters of a component
\* that is no longer mounted have no effect; onRecommendation is the parent's
\* function and is called whether or not the dialog is still mounted.
Settle(i, r) ==
    LET out == Continuation(pending[i].mode, r)
    IN  /\ pending' = SubSeq(pending, 1, i - 1) \o SubSeq(pending, i + 1, Len(pending))
        /\ response' = r
        /\ IF out.threw
           THEN /\ error' = IF mounted THEN ErrorMessage ELSE error
                /\ event' = Event("settle", FALSE)
                /\ UNCHANGED <<delivered, recommendation>>
           ELSE /\ delivered' = out.rec
                /\ recommendation' = ParentOnRecommendation(out.rec)
                /\ event' = Event("settle", TRUE)
                /\ UNCHANGED error
        /\ loading' = IF mounted THEN FALSE ELSE loading
        /\ UNCHANGED <<mode, query, mounted>>
        /\ UNCHANGED <<copyVars, normVars>>

CopyIdle ==
    /\ copiedSection = Null
    /\ clipboard = ""
    /\ timers = <<>>
    /\ now = 0
    /\ copies = <<>>

NormalizeIdle ==
    /\ original = <<>>
    /\ systemInstruction = <<>>
    /\ formattedInstruction = <<>>
    /\ passes = 0

FinderIdle ==
    /\ mode = "persona"
    /\ query = <<>>
    /\ loading = FALSE
    /\ error = Null
    /\ mounted = FALSE
    /\ pending = <<>>
    /\ response = NoResponse
    /\ delivered = <<>>
    /\ recommendation = <<>>
    /\ event = Event("none", FALSE)

\* the dialog has just been opened (lines 18-21); the parent may hold an
\* earlier recommendation
InitFinder ==
    /\ mode = "persona"
    /\ query = <<>>
    /\ loading = FALSE
    /\ error = Null
    /\ mounted = TRUE
    /\ pending = <<>>
    /\ response = NoResponse
    /\ delivered = <<>>
    /\ recommendation \in {<<>>, <<PriorRecommendation>>}
    /\ event = Event("open", FALSE)
    /\ CopyIdle
    /\ NormalizeIdle

NextFinder ==
    \/ ClickAnalyze
    \/ AnalyzeBlank
    \/ \E m \in Modes : SetMode(m)
    \/ \E q \in Queries : SetQuery(q)
    \/ Dismiss
    \/ \E i \in 1..Len(pending) : \E r \in Responses : Settle(i, r)

SpecFinder == InitFinder /\ [][NextFinder]_vars

----------------------------------------------------------------------------
(* AiResultCard: handleCopy *)

\* the delay of the setTimeout of line 35, ms
CopiedDelayMs == 2000

\* the clock advances in half delays
TickStep == CopiedDelayMs \div 2

Sections == {"prompt", "sample", "script"}
ClipTexts == {"notes text", "sample text"}

\* handleCopy (lines 32-36): the timer it starts is never cancelled
HandleCopy(text, section) ==
    /\ Len(copies) < MaxCopies
    /\ clipboard' = text
    /\ copiedSection' = section
    /\ timers' = Append(timers, now + CopiedDelayMs)
    /\ copies' = Append(copies, [section |-> section, at |-> now])
    /\ UNCHANGED now
    /\ UNCHANGED <<finderVars, normVars>>

\* the callback of line 35 runs: () => setCopiedSection(null).
\* Timers of equal delay run in the order they were started.
TimerFires ==
    /\ timers # <<>>
    /\ Head(timers) <= now
    /\ copiedSection' = Null
    /\ timers' = Tail(timers)
    /\ UNCHANGED <<clipboard, now, copies>>
    /\ UNCHANGED <<finderVars, normVars>>

\* time passes; a timer that is due runs before the clock moves on
Tick ==
    /\ now < MaxClock
    /\ \A k \in 1..Len(timers) : timers[k] > now
    /\ now' = now + TickStep
    /\ UNCHANGED <<copiedSection, clipboard, timers, copies>>
    /\ UNCHANGED <<finderVars, normVars>>

InitCopy ==
    /\ CopyIdle
    /\ FinderIdle
    /\ NormalizeIdle

NextCopy ==
    \/ \E t \in ClipTexts : \E sec \in Sections : HandleCopy(t, sec)
    \/ TimerFires
    \/ Tick

SpecCopy == InitCopy /\ [][NextCopy]_vars

----------------------------------------------------------------------------
(* AiResultCard: formattedInstruction *)

NormChars == {"a", "#", " ", "\n"}
Texts == UNION {[1..n -> NormChars] : n \in 0..MaxTextLen}

RECURSIVE SkipWhitespace(_, _)
\* \s* from position j: the first position at or after j that holds no whitespace.
\* The run is taken whole: '#' is not whitespace, so giving characters back
\* never lets (##) match.
SkipWhitespace(s, j) ==
    IF j <= Len(s) /\ s[j] \in Whitespace THEN SkipWhitespace(s, j + 1) ELSE j

\* /([^\n])\s*(##)/ tried at position i: the position after the match, 0 if none
MatchEnd(s, i) ==
    LET j == SkipWhitespace(s, i + 1)
    IN  IF s[i] # "\n" /\ j + 1 <= Len(s) /\ s[j] = "#" /\ s[j + 1] = "#"
        THEN j + 2 ELSE 0

RECURSIVE ReplaceKeepingWhitespaceFrom(_, _)
ReplaceKeepingWhitespaceFrom(s, i) ==
    IF i > Len(s) THEN <<>>
    ELSE LET e == MatchEnd(s, i)
         IN  IF e # 0
             THEN SubSeq(s, i, e - 3) \o <<"\n", "\n", "#", "#">>
                      \o ReplaceKeepingWhitespaceFrom(s, e)
             ELSE <<s[i]>> \o ReplaceKeepingWhitespaceFrom(s, i + 1)

\* FormattedInstruction with a fault: /([^\n]\s*)(##)/g, the whitespace inside group 1
FormattedInstructionKeepingWhitespace(text) ==
    IF text = <<>> THEN <<>> ELSE ReplaceKeepingWhitespaceFrom(text, 1)

RECURSIVE ReplaceFrom(_, _)
\* text.replace(/([^\n])\s*(##)/g, '$1\n\n$2') from position i: matches are taken
\* leftmost first and the search resumes after each match
ReplaceFrom(s, i) ==
    IF i > Len(s) THEN <<>>
    ELSE LET e == MatchEnd(s, i)
         IN  IF e # 0
             THEN <<s[i], "\n", "\n", "#", "#">> \o ReplaceFrom(s, e)
             ELSE <<s[i]>> \o ReplaceFrom(s, i + 1)

\* formattedInstruction (lines 38-43)
FormattedInstruction(text) ==
    IF text = <<>> THEN <<>> ELSE ReplaceFrom(text, 1)

\* the card renders: useMemo computes formattedInstruction
Render ==
    /\ passes = 0
    /\ formattedInstruction' = FormattedInstruction(systemInstruction)
    /\ passes' = 1
    /\ UNCHANGED <<original, systemInstruction>>
    /\ UNCHANGED <<finderVars, copyVars>>

\* the normalized text is handed to the card as its systemInstruction
Renormalize ==
    /\ passes >= 1
    /\ passes < MaxPasses
    /\ systemInstruction' = formattedInstruction
    /\ formattedInstruction' = FormattedInstruction(formattedInstruction)
    /\ passes' = passes + 1
    /\ UNCHANGED original
    /\ UNCHANGED <<finderVars, copyVars>>

InitNormalize ==
    /\ original \in Texts
    /\ systemInstruction = original
    /\ formattedInstruction = <<>>
    /\ passes = 0
    /\ FinderIdle
    /\ CopyIdle

NextNormalize ==
    \/ Render
    \/ Renormalize

SpecNormalize == InitNormalize /\ [][NextNormalize]_vars

----------------------------------------------------------------------------
(* Claims about VoiceFinder, checked under SpecFinder *)

\* a request settled in this step
SettleStep == Len(pending') < Len(pending)

AllWhitespace(s) == \A i \in 1..Len(s) : s[i] \in Whitespace

\* C1: while the dialog is on screen, a request is pending exactly when loading
\* is true; while one is pending the Analyze button is disabled, so at most
\* one request is in flight; once the request has settled, by success or by
\* failure, loading is false again.
C1_TriggerDisabledWhilePending ==
    /\ Len(pending) <= 1
    /\ mounted =>
          /\ pending # <<>> => (loading /\ AnalyzeDisabled)
          /\ pending = <<>> => ~loading

C1_Witness ==
    /\ mounted
    /\ event.op = "settle"
    /\ response.status = "rejected"
    /\ ~loading
    /\ ~AllWhitespace(query)

C3_VoiceNamesAreTheDistinctVoices ==
    (event.op = "settle" /\ event.calledBack /\ delivered[1].isMultiSpeaker) =>
        LET names == delivered[1].voiceNames
            parts == OrElse(TextOrDefault(response).value.scriptParts, <<>>)
        IN  /\ Range(names) = {VoiceNameOf(parts[i]) : i \in 1..Len(parts)}
            /\ \A i, j \in 1..Len(names) : names[i] = names[j] => i = j

C3_Witness ==
    /\ event.op = "settle"
    /\ event.calledBack
    /\ delivered[1].isMultiSpeaker
    /\ response.status = "json"
    /\ response.value.scriptParts # <<>>
    /\ LET parts == response.value.scriptParts[1]
       IN  /\ Len(parts) = 2
           /\ parts[1].voiceName = <<"Kore">>
           /\ parts[2].voiceName = <<"Kore">>
    /\ delivered[1].voiceNames = <<"Kore">>

\* C4: a record passed to onRecommendation has scriptParts exactly when
\* isMultiSpeaker is true, and isMultiSpeaker is true exactly when the mode was
\* 'script' at the time the analysis was triggered.
C4_ScriptPartsIffMultiSpeaker ==
    [][(SettleStep /\ event'.calledBack) =>
          /\ (delivered'[1].scriptParts # <<>>) <=> delivered'[1].isMultiSpeaker
          /\ \A i \in 1..Len(pending) :
                 delivered'[1].isMultiSpeaker <=> (pending[i].mode = "script")]_vars

\* a script result delivered after the user switched back to persona mode
C4_Witness ==
    /\ event.op = "settle"
    /\ event.calledBack
    /\ delivered[1].isMultiSpeaker
    /\ delivered[1].scriptParts # <<>>
    /\ mounted
    /\ mode = "persona"

\* C5: handleAnalyze entered with an empty or whitespace-only query changes
\* nothing: no request is started, onRecommendation is not called, and
\* loading, error, query and mode stay as they were.
C5_BlankQueryIsNoOp ==
    [][(event'.op = "handleAnalyze" /\ AllWhitespace(query)) =>
          /\ UNCHANGED <<loading, error, query, mode, pending>>
          /\ UNCHANGED <<response, delivered, recommendation>>
          /\ ~event'.calledBack]_vars

\* entered with a whitespace-only query while an earlier request is pending
C5_Witness ==
    /\ event.op = "handleAnalyze"
    /\ query = <<"\n", " ">>
    /\ loading
    /\ pending # <<>>

\* C9: a request that settles after the dialog was dismissed does not call
\* onRecommendation and does not change the parent's recommendation.
C9_ResultDiscardedAfterDismiss ==
    [][(SettleStep /\ ~mounted) =>
          /\ ~event'.calledBack
          /\ recommendation' = recommendation]_vars

\* C10: a response that parses as JSON never ends in the error message, and
\* the record delivered for it holds a string for every string field: no
\* voiceNames entry is undefined and every script part has a voiceName.
C10_MissingFieldsDefaulted ==
    (event.op = "settle" /\ response.status = "json") =>
        /\ event.calledBack
        /\ error = Null
        /\ LET rec == delivered[1]
               parts == OrElse(rec.scriptParts, <<>>)
           IN  /\ \A i \in 1..Len(rec.voiceNames) : rec.voiceNames[i] # Undefined
               /\ \A i \in 1..Len(parts) : parts[i].voiceName # <<>>

----------------------------------------------------------------------------
(* Claims about handleCopy, checked under SpecCopy *)

\* C8: when a section was copied and a different section is copied before the
\* first copy's delay has elapsed, copiedSection names the second section
\* until the delay after the second copy has elapsed.
C8_LatestCopyStaysFlagged ==
    \A k \in 2..Len(copies) :
        LET a == copies[k - 1]
            b == copies[k]
        IN  (/\ k = Len(copies)
             /\ a.section # b.section
             /\ b.at < a.at + CopiedDelayMs
             /\ now < b.at + CopiedDelayMs) => copiedSection = b.section

----------------------------------------------------------------------------
(* Claims about formattedInstruction, checked under SpecNormalize *)

\* position i of s starts the heading marker '##'
MarkerAt(s, i) == i + 1 <= Len(s) /\ s[i] = "#" /\ s[i + 1] = "#"

\* every '##' of s has a blank line right before it
AllMarkersSeparated(s) ==
    \A i \in 1..Len(s) :
        MarkerAt(s, i) => (i >= 3 /\ s[i - 1] = "\n" /\ s[i - 2] = "\n")

RECURSIVE IsSubsequence(_, _)
\* b is a with characters inserted
IsSubsequence(a, b) ==
    IF a = <<>> THEN TRUE
    ELSE IF b = <<>> THEN FALSE
    ELSE IF Head(a) = Head(b) THEN IsSubsequence(Tail(a), Tail(b))
    ELSE IsSubsequence(a, Tail(b))

\* C6: the normalization applied to its own output returns that output.
C6_NormalizationIdempotent ==
    passes >= 2 => formattedInstruction = systemInstruction

\* a text with a run of '#' that the first pass changed
C6_Witness ==
    /\ passes = 2
    /\ original # systemInstruction
    /\ \E i \in 1..Len(original) : MarkerAt(original, i) /\ MarkerAt(original, i + 1)
    /\ \E i \in 1..Len(original) : original[i] \in Whitespace /\ MarkerAt(original, i + 1)

\* C7: the normalization only inserts characters, and a text whose every '##'
\* already has a blank line before it is returned unchanged.
C7_OnlyInsertsBlankLines ==
    passes = 1 =>
        /\ IsSubsequence(systemInstruction, formattedInstruction)
        /\ AllMarkersSeparated(systemInstruction) =>
               formattedInstruction = systemInstruction

====
